---- MODULE Spec2Model ----
(***************************************************************************)
(* Sales-Forecasting-Analytics: the model store (src/src/model_utils.py),  *)
(* the SARIMA order search (src/src/hyperparameter_tuning.py), the         *)
(* training and forecast runs (train_sarima.py, forecast.py), the          *)
(* evaluation script (model_evaluation.py) and the monthly aggregation.    *)
(*                                                                         *)
(* The specifications share the variables:                                 *)
(*   Spec        one caller issuing save_model / load_model /              *)
(*               get_model_info calls one after the other, from an empty   *)
(*               models directory;                                         *)
(*   SpecAnyStore  the same calls, from any content of the directory;      *)
(*   SpecConc    two callers running save_model concurrently, one file     *)
(*               operation per step;                                       *)
(*   SpecSearch  grid_search_sarima and the tuning main() around it;       *)
(*   SpecRun     training runs and forecast runs over the model store,     *)
(*               with the cleaned sales file changing in between;          *)
(*   SpecEval    the evaluation script: split, fit, predict, metrics;      *)
(*   SpecAgg     load_monthly_sales of each component on a file of records;*)
(*   SpecDiff    the differencing script: difference, two unit-root tests. *)
(***************************************************************************)
EXTENDS Integers, Sequences, FiniteSets, TLC

VARIABLES
    artifact,   \* models/sarima_model.pkl
    metadata,   \* models/model_metadata.json
    clock,      \* datetime.now(), one tick per save call
    ret,        \* what the last model-store call did and returned
    pc,         \* SpecConc: position of each concurrent save_model call
    args,       \* SpecConc: arguments of each concurrent save_model call
    sret,       \* SpecConc: return value of each concurrent save_model call
    stamp,      \* SpecConc: metadata['saved_at'] of each call
    lastDump,   \* SpecConc: the call whose joblib.dump finished last
    lastMeta,   \* SpecConc: the call whose json.dump finished last
    clash,      \* SpecConc: files written by two calls at the same time
    ranges,     \* SpecSearch: the six inclusive ranges (p, d, q, P, D, Q)
    spc,        \* SpecSearch: position of the tuning main()
    tried,      \* SpecSearch: the combinations fitted so far, with outcome
    results,    \* SpecSearch: the `results' list of grid_search_sarima
    results_df, \* SpecSearch: the frame grid_search_sarima returns
    report,     \* SpecSearch: what main() logs about the current model
    csv,        \* SpecSearch: hyperparameter_tuning_results.csv
    sales,      \* SpecRun: months in the cleaned sales file, 0 for no record
    run,        \* SpecRun: what the last training or forecast run did
    forecast_csv,   \* SpecRun: the forecast output file
    monthly_sales,  \* SpecEval: the monthly series of the evaluation script
    test_size,  \* SpecEval: config.TEST_SIZE
    epc,        \* SpecEval: position of the evaluation script
    train,      \* SpecEval: monthly_sales[:-TEST_SIZE]
    test,       \* SpecEval: monthly_sales[-TEST_SIZE:]
    fitted,     \* SpecEval: whether, and on how many months, fit was called
    predictions,    \* SpecEval: the predicted mean over the test months
    metrics,    \* SpecEval: the MAE, RMSE and MAPE reported and plotted
    cleaned,    \* SpecAgg: the records of the cleaned sales file
    loaded,     \* SpecAgg: what the last load_monthly_sales call did
    dsales,     \* SpecDiff: `sales' of the differencing main()
    diff_sales, \* SpecDiff: what difference_series returned
    dpc,        \* SpecDiff: position of the differencing main()
    adf         \* SpecDiff: the series adf_test was called with, in order

storeVars == <<artifact, metadata, clock, ret>>
concVars == <<pc, args, sret, stamp, lastDump, lastMeta, clash>>
searchVars == <<ranges, spc, tried, results, results_df, report, csv>>
runVars == <<sales, run, forecast_csv>>
evalVars == <<monthly_sales, test_size, epc, train, test, fitted, predictions,
              metrics>>
aggVars == <<cleaned, loaded>>
diffVars == <<dsales, diff_sales, dpc, adf>>
vars == <<artifact, metadata, clock, ret, pc, args, sret, stamp, lastDump,
          lastMeta, clash, ranges, spc, tried, results, results_df, report,
          csv, sales, run, forecast_csv, monthly_sales, test_size, epc, train,
          test, fitted, predictions, metrics, cleaned, loaded, dsales,
          diff_sales, dpc, adf>>

(***************************************************************************)
(* Bounds                                                                  *)
(***************************************************************************)
MaxModel == 2    \* distinct fitted models a caller may pass to save_model
MaxCalls == 3    \* save_model calls in one run of Spec
MaxOrd == 1      \* range bounds of the order search are drawn from 0..MaxOrd
MaxCombos == 2   \* size of the Cartesian product of the drawn ranges
MaxAIC == 4      \* AIC values the estimation engine returns: 1..MaxAIC
MaxBIC == 2      \* BIC values the estimation engine returns: 1..MaxBIC

Models == 1..MaxModel

(***************************************************************************)
(* Files.  A file is absent, present and complete, or present and left    *)
(* incomplete by a write that failed after the file was opened with 'w'.   *)
(* `by' is the save call that wrote the file.                              *)
(***************************************************************************)
NoArtifact == [exists |-> FALSE, complete |-> FALSE, model |-> 0, by |-> 0]
NoMetadata == [exists |-> FALSE, complete |-> FALSE, describes |-> 0,
               saved_at |-> 0, by |-> 0]

\* The metadata argument of save_model: a record describing the model, the
\* empty dict, or None.
MetaKinds == {"full", "empty", "none"}

\* `if metadata:' -- None and the empty dict are both falsy.
Truthy(mk) == mk = "full"

\* The points at which a save_model call can raise, and "ok".
SaveOutcomes == {"dump_open_fails", "dump_write_fails", "meta_open_fails",
                 "meta_write_fails", "ok"}

DumpDone(out) == out \notin {"dump_open_fails", "dump_write_fails"}

\* An outcome the call can have with this metadata argument: the metadata
\* file is only touched when the argument is truthy.
Possible(mk, out) ==
    out \in {"meta_open_fails", "meta_write_fails"} => Truthy(mk)

\* joblib.dump(model, SARIMA_MODEL_FILE)
SaveArtifact(old, m, c, out) ==
    CASE out = "dump_open_fails" -> old
      [] out = "dump_write_fails" ->
            [exists |-> TRUE, complete |-> FALSE, model |-> m, by |-> c]
      [] OTHER ->
            [exists |-> TRUE, complete |-> TRUE, model |-> m, by |-> c]

\* A save_model that writes the sidecar before the artifact.
SaveMetadataFirst(old, m, c, mk, out) ==
    IF ~Truthy(mk) THEN old
    ELSE [exists |-> TRUE, complete |-> TRUE, describes |-> m,
          saved_at |-> c, by |-> c]

\* with open(MODEL_METADATA_FILE, 'w') as f: json.dump(metadata, f, indent=2)
SaveMetadata(old, m, c, mk, out) ==
    IF ~DumpDone(out) \/ ~Truthy(mk) \/ out = "meta_open_fails" THEN old
    ELSE IF out = "meta_write_fails"
         THEN [exists |-> TRUE, complete |-> FALSE, describes |-> m,
               saved_at |-> c, by |-> c]
         ELSE [exists |-> TRUE, complete |-> TRUE, describes |-> m,
               saved_at |-> c, by |-> c]

\* return True / except Exception: return False
SaveReturn(out) == out = "ok"

NoInfo == [model_exists |-> FALSE, metadata_exists |-> FALSE,
           has_metadata |-> FALSE]

NoRet == [op |-> "none", status |-> "none", ok |-> FALSE, call |-> 0,
          model |-> 0, mk |-> "none", check |-> FALSE, info |-> NoInfo]

\* save_model(model, metadata)
Save(m, mk, out) ==
    /\ clock < MaxCalls
    /\ Possible(mk, out)
    /\ clock' = clock + 1
    /\ artifact' = SaveArtifact(artifact, m, clock', out)
    /\ metadata' = SaveMetadata(metadata, m, clock', mk, out)
    /\ ret' = [NoRet EXCEPT !.op = "save", !.status = "returned",
                            !.ok = SaveReturn(out), !.call = clock',
                            !.model = m, !.mk = mk]
    /\ UNCHANGED <<concVars, searchVars, runVars, evalVars, aggVars, diffVars>>

\* A load_model that returns None for a missing artifact instead of raising.
LoadOutcomeSwallow(check) ==
    IF ~artifact.exists THEN "ok"
    ELSE IF ~artifact.complete THEN "Exception"
    ELSE IF check /\ metadata.exists /\ ~metadata.complete THEN "Exception"
    ELSE "ok"

\* load_model: how the call ends.  joblib.load raises on a truncated pickle,
\* json.load raises on a truncated or empty JSON file.
LoadOutcome(check) ==
    IF ~artifact.exists THEN "FileNotFoundError"
    ELSE IF ~artifact.complete THEN "Exception"
    ELSE IF check /\ metadata.exists /\ ~metadata.complete THEN "Exception"
    ELSE "ok"

\* load_model(check_metadata)
Load(check) ==
    /\ ret' = [NoRet EXCEPT !.op = "load", !.status = LoadOutcome(check),
                            !.check = check,
                            !.model = IF LoadOutcome(check) = "ok"
                                      THEN artifact.model ELSE 0]
    /\ UNCHANGED <<artifact, metadata, clock>>
    /\ UNCHANGED <<concVars, searchVars, runVars, evalVars, aggVars, diffVars>>

\* get_model_info: json.load of the sidecar is not guarded.
InfoOutcome ==
    IF metadata.exists /\ ~metadata.complete THEN "Exception" ELSE "ok"

\* get_model_info()
Info ==
    /\ ret' = [NoRet EXCEPT !.op = "info", !.status = InfoOutcome,
                            !.info = IF InfoOutcome = "ok"
                                     THEN [model_exists |-> artifact.exists,
                                           metadata_exists |-> metadata.exists,
                                           has_metadata |-> metadata.exists]
                                     ELSE NoInfo]
    /\ UNCHANGED <<artifact, metadata, clock>>
    /\ UNCHANGED <<concVars, searchVars, runVars, evalVars, aggVars, diffVars>>

Procs == {1, 2}

ConcIdle ==
    /\ pc = [p \in Procs |-> "idle"]
    /\ args = [p \in Procs |-> "none"]
    /\ sret = [p \in Procs |-> "none"]
    /\ stamp = [p \in Procs |-> 0]
    /\ lastDump = 0
    /\ lastMeta = 0
    /\ clash = {}

NoReport == [shown |-> FALSE, rank |-> 0, current_aic |-> 0, best_aic |-> 0,
             improvement |-> 0, recommend |-> FALSE]

NoCsv == [written |-> FALSE, rows |-> <<>>]

SearchIdle ==
    /\ ranges = [i \in 1..6 |-> <<0, 0>>]
    /\ spc = "idle"
    /\ tried = <<>>
    /\ results = <<>>
    /\ results_df = <<>>
    /\ report = NoReport
    /\ csv = NoCsv

\* No training or forecast run yet.  `before' is the store as the run found
\* it; `index' the months of the forecast; `against' the last month of the
\* sales series the forecast is plotted with.
NoRun == [prog |-> "none", exit |-> 0, info |-> "none", load |-> "none",
          data |-> "none", fit |-> "none", fit_len |-> 0, save |-> "none",
          from |-> "none", model_end |-> 0, index |-> <<>>, against |-> 0,
          plot |-> "none", before |-> <<NoArtifact, NoMetadata>>]

NoForecastCsv == [written |-> FALSE, index |-> <<>>]

RunIdle ==
    /\ sales = 0
    /\ run = NoRun
    /\ forecast_csv = NoForecastCsv

NoMetrics == [produced |-> FALSE, plotted |-> FALSE, n |-> 0, abs_sum |-> 0,
              sq_sum |-> 0, mape |-> "none", mape_num |-> 0, mape_den |-> 1]

EvalIdle ==
    /\ monthly_sales = <<>>
    /\ test_size = 0
    /\ epc = "idle"
    /\ train = <<>>
    /\ test = <<>>
    /\ fitted = [called |-> FALSE, on |-> 0, outcome |-> "none"]
    /\ predictions = <<>>
    /\ metrics = NoMetrics

NoLoaded == [by |-> "none", status |-> "none", series |-> <<>>, first |-> 0]

AggIdle ==
    /\ cleaned = <<>>
    /\ loaded = NoLoaded

DiffIdle ==
    /\ dsales = <<>>
    /\ diff_sales = <<>>
    /\ dpc = "idle"
    /\ adf = <<>>

\* A fresh environment: the models directory exists and is empty.
StoreEmpty ==
    /\ artifact = NoArtifact
    /\ metadata = NoMetadata
    /\ clock = 0
    /\ ret = NoRet

Init ==
    /\ StoreEmpty
    /\ ConcIdle
    /\ SearchIdle
    /\ RunIdle
    /\ EvalIdle
    /\ AggIdle
    /\ DiffIdle

Next ==
    \/ \E m \in Models, mk \in MetaKinds, out \in SaveOutcomes : Save(m, mk, out)
    \/ \E check \in BOOLEAN : Load(check)
    \/ Info

Spec == Init /\ [][Next]_vars

\* The files an earlier run, or the operator, may have left in the models
\* directory: either file absent, complete or truncated, in any combination
\* (an operator can remove the artifact and leave the sidecar behind).
LeftArtifacts ==
    {NoArtifact} \cup
    {[exists |-> TRUE, complete |-> c, model |-> m, by |-> 0] :
        c \in BOOLEAN, m \in Models}

LeftMetadata ==
    {NoMetadata} \cup
    {[exists |-> TRUE, complete |-> c, describes |-> m, saved_at |-> 0,
      by |-> 0] : c \in BOOLEAN, m \in Models}

InitAnyStore ==
    /\ artifact \in LeftArtifacts
    /\ metadata \in LeftMetadata
    /\ clock = 0
    /\ ret = NoRet
    /\ ConcIdle
    /\ SearchIdle
    /\ RunIdle
    /\ EvalIdle
    /\ AggIdle
    /\ DiffIdle

SpecAnyStore == InitAnyStore /\ [][Next]_vars

(***************************************************************************)
(* SpecConc: two save_model calls running at the same time.  Each call     *)
(* saves its own model (model p for call p); a step is one file operation. *)
(* Opening a file for writing truncates it; a file that a second call      *)
(* opens while the first is still writing it may end up garbled.           *)
(***************************************************************************)
\* save_model(model, metadata) is entered
ConcCall(p, mk) ==
    /\ pc[p] = "idle"
    /\ pc' = [pc EXCEPT ![p] = "dump_open"]
    /\ args' = [args EXCEPT ![p] = mk]
    /\ UNCHANGED <<artifact, metadata, clock, ret, sret, stamp, lastDump,
                   lastMeta, clash, searchVars, runVars,
                   evalVars, aggVars, diffVars>>

\* except Exception: return False
ConcFail(p) ==
    /\ pc' = [pc EXCEPT ![p] = "done"]
    /\ sret' = [sret EXCEPT ![p] = "False"]

\* joblib.dump opens SARIMA_MODEL_FILE for writing (or fails to)
ConcDumpOpen(p, fails) ==
    /\ pc[p] = "dump_open"
    /\ IF fails
       THEN /\ ConcFail(p)
            /\ UNCHANGED <<artifact, clash>>
       ELSE /\ artifact' = [exists |-> TRUE, complete |-> FALSE, model |-> p,
                            by |-> p]
            /\ clash' = IF \E q \in Procs \ {p} : pc[q] = "dump_write"
                        THEN clash \cup {"artifact"} ELSE clash
            /\ pc' = [pc EXCEPT ![p] = "dump_write"]
            /\ UNCHANGED sret
    /\ UNCHANGED <<metadata, clock, ret, args, stamp, lastDump, lastMeta,
                   searchVars, runVars,
                   evalVars, aggVars, diffVars>>

\* A dump that returns before the pickle is flushed and the file closed.
ConcArtifactUnflushed(old, p, whole) ==
    [exists |-> TRUE, complete |-> FALSE, model |-> p, by |-> p]

\* The artifact after call p's joblib.dump has written and closed it.
ConcArtifactWritten(old, p, whole) ==
    [exists |-> TRUE, complete |-> whole, model |-> p, by |-> p]

\* joblib.dump writes the pickle and closes the file (or fails part-way)
ConcDumpWrite(p, fails, whole) ==
    /\ pc[p] = "dump_write"
    /\ whole \/ "artifact" \in clash
    /\ IF fails
       THEN /\ ConcFail(p)
            /\ UNCHANGED <<artifact, lastDump>>
       ELSE /\ artifact' = ConcArtifactWritten(artifact, p, whole)
            /\ lastDump' = p
            /\ IF Truthy(args[p])
               THEN /\ pc' = [pc EXCEPT ![p] = "meta_open"]
                    /\ UNCHANGED sret
               ELSE /\ pc' = [pc EXCEPT ![p] = "done"]
                    /\ sret' = [sret EXCEPT ![p] = "True"]
    /\ UNCHANGED <<metadata, clock, ret, args, stamp, lastMeta, clash,
                   searchVars, runVars,
                   evalVars, aggVars, diffVars>>

\* metadata['saved_at'] = datetime.now(); open(MODEL_METADATA_FILE, 'w')
ConcMetaOpen(p, fails) ==
    /\ pc[p] = "meta_open"
    /\ clock' = clock + 1
    /\ stamp' = [stamp EXCEPT ![p] = clock']
    /\ IF fails
       THEN /\ ConcFail(p)
            /\ UNCHANGED <<metadata, clash>>
       ELSE /\ metadata' = [exists |-> TRUE, complete |-> FALSE,
                            describes |-> p, saved_at |-> clock', by |-> p]
            /\ clash' = IF \E q \in Procs \ {p} : pc[q] = "meta_write"
                        THEN clash \cup {"metadata"} ELSE clash
            /\ pc' = [pc EXCEPT ![p] = "meta_write"]
            /\ UNCHANGED sret
    /\ UNCHANGED <<artifact, ret, args, lastDump, lastMeta, searchVars, runVars,
                   evalVars, aggVars, diffVars>>

\* json.dump writes the record and the with-block closes the file; return True
ConcMetaWrite(p, fails, whole) ==
    /\ pc[p] = "meta_write"
    /\ whole \/ "metadata" \in clash
    /\ IF fails
       THEN /\ ConcFail(p)
            /\ UNCHANGED <<metadata, lastMeta>>
       ELSE /\ metadata' = [exists |-> TRUE, complete |-> whole,
                            describes |-> p, saved_at |-> stamp[p], by |-> p]
            /\ lastMeta' = p
            /\ pc' = [pc EXCEPT ![p] = "done"]
            /\ sret' = [sret EXCEPT ![p] = "True"]
    /\ UNCHANGED <<artifact, clock, ret, args, stamp, lastDump, clash,
                   searchVars, runVars,
                   evalVars, aggVars, diffVars>>

NextConc ==
    \/ \E p \in Procs, mk \in MetaKinds : ConcCall(p, mk)
    \/ \E p \in Procs, fails \in BOOLEAN : ConcDumpOpen(p, fails)
    \/ \E p \in Procs, fails \in BOOLEAN, whole \in BOOLEAN :
          ConcDumpWrite(p, fails, whole)
    \/ \E p \in Procs, fails \in BOOLEAN : ConcMetaOpen(p, fails)
    \/ \E p \in Procs, fails \in BOOLEAN, whole \in BOOLEAN :
          ConcMetaWrite(p, fails, whole)

SpecConc == Init /\ [][NextConc]_vars

(***************************************************************************)
(* SpecSearch: grid_search_sarima and the tuning main() that calls it.     *)
(* The series and the estimation engine are abstracted by the outcome of   *)
(* each fit: it raises, or it returns a fitted model with an AIC and BIC.  *)
(***************************************************************************)
\* The current model of config.py, as (p, d, q, P, D, Q).
SARIMA_ORDER == <<1, 1, 1, 1, 1, 1>>

\* `if improvement > 2'
ImprovementThreshold == 2

\* len(range(lo, hi + 1))
RangeLen(r) == IF r[2] >= r[1] THEN r[2] - r[1] + 1 ELSE 0

RECURSIVE Radix(_, _)
\* The number of combinations that differ only in the positions after i.
Radix(rs, i) == IF i >= 6 THEN 1 ELSE RangeLen(rs[i + 1]) * Radix(rs, i + 1)

\* total_combinations
TotalCombinations(rs) == RangeLen(rs[1]) * Radix(rs, 1)

\* itertools.product(p_values, ..., Q_values): the last position varies
\* fastest, every position runs over its range in ascending order.
Product(rs) ==
    [k \in 1..TotalCombinations(rs) |->
        [i \in 1..6 |-> rs[i][1] + (((k - 1) \div Radix(rs, i)) % RangeLen(rs[i]))]]

FitRaised == [raised |-> TRUE, AIC |-> 0, BIC |-> 0]

\* What SARIMAX(...).fit(disp=False, maxiter=50) can do on one combination.
FitOutcomes ==
    {FitRaised} \cup
    {[raised |-> FALSE, AIC |-> a, BIC |-> b] : a \in 1..MaxAIC, b \in 1..MaxBIC}

\* A loop body that records a failed fit as a zero entry.
CollectWithPlaceholder(res, o, out) ==
    Append(res, [order |-> o, AIC |-> out.AIC, BIC |-> out.BIC])

\* results.append({...}) / except Exception: continue
Collect(res, o, out) ==
    IF out.raised THEN res
    ELSE Append(res, [order |-> o, AIC |-> out.AIC, BIC |-> out.BIC])

\* One iteration of the loop over the product.
Fit(out) ==
    /\ spc = "loop"
    /\ Len(tried) < TotalCombinations(ranges)
    /\ LET o == Product(ranges)[Len(tried) + 1] IN
          /\ tried' = Append(tried, [order |-> o, raised |-> out.raised,
                                     AIC |-> out.AIC, BIC |-> out.BIC])
          /\ results' = Collect(results, o, out)
    /\ UNCHANGED <<ranges, spc, results_df, report, csv>>
    /\ UNCHANGED <<storeVars, concVars, runVars, evalVars, aggVars, diffVars>>

Reorderings(res) ==
    {f \in [1..Len(res) -> 1..Len(res)] :
        \A i, j \in 1..Len(res) : i # j => f[i] # f[j]}

\* A return without the sort.
Unsorted(res) == {res}

\* results_df.sort_values('AIC').reset_index(drop=True): the default sort
\* kind is quicksort, which is not stable, so rows of equal AIC may come out
\* in any order.
SortValues(res) ==
    {[i \in 1..Len(res) |-> res[f[i]]] :
        f \in {g \in Reorderings(res) :
                 \A i \in 1..(Len(res) - 1) : res[g[i]].AIC <= res[g[i + 1]].AIC}}

\* The end of grid_search_sarima: sorting a frame built from an empty list
\* raises KeyError('AIC'), since that frame has no columns.
SearchReturn ==
    /\ spc = "loop"
    /\ Len(tried) = TotalCombinations(ranges)
    /\ IF results = <<>>
       THEN /\ spc' = "raised"
            /\ UNCHANGED results_df
       ELSE /\ spc' = "returned"
            /\ \E s \in SortValues(results) : results_df' = s
    /\ UNCHANGED <<ranges, tried, results, report, csv>>
    /\ UNCHANGED <<storeVars, concVars, runVars, evalVars, aggVars, diffVars>>

\* The rows of the frame that are the current model (index labels).
CurrentModel(df) == {i \in 1..Len(df) : df[i].order = SARIMA_ORDER}

Min(S) == CHOOSE x \in S : \A y \in S : x <= y

\* A rank that counts rows from 0, as the frame's index does.
CurrentReportZeroBased(df) ==
    IF CurrentModel(df) = {} THEN NoReport
    ELSE LET i == Min(CurrentModel(df)) IN
         [shown |-> TRUE, rank |-> i - 1, current_aic |-> df[i].AIC,
          best_aic |-> df[1].AIC, improvement |-> df[i].AIC - df[1].AIC,
          recommend |-> df[i].AIC - df[1].AIC > ImprovementThreshold]

\* rank = current_model.index[0] + 1 (the index counts from 0; rows here are
\* numbered from 1); improvement = current AIC - best AIC.
CurrentReport(df) ==
    IF CurrentModel(df) = {} THEN NoReport
    ELSE LET i == Min(CurrentModel(df)) IN
         [shown |-> TRUE, rank |-> i, current_aic |-> df[i].AIC,
          best_aic |-> df[1].AIC, improvement |-> df[i].AIC - df[1].AIC,
          recommend |-> df[i].AIC - df[1].AIC > ImprovementThreshold]

\* main() after grid_search_sarima: report the current model's rank and write
\* the results; an exception of the search is caught and logged.
MainFinish ==
    /\ spc \in {"returned", "raised"}
    /\ IF spc = "raised"
       THEN /\ spc' = "failed"
            /\ UNCHANGED <<report, csv>>
       ELSE /\ spc' = "done"
            /\ report' = CurrentReport(results_df)
            /\ csv' = [written |-> TRUE, rows |-> results_df]
    /\ UNCHANGED <<ranges, tried, results, results_df>>
    /\ UNCHANGED <<storeVars, concVars, runVars, evalVars, aggVars, diffVars>>

RangeSet == (0..MaxOrd) \X (0..MaxOrd)

\* The ranges a search is started with: one range is drawn freely (it may be
\* empty), the five others hold one common value.
InitSearch ==
    /\ StoreEmpty
    /\ ConcIdle
    /\ \E w \in 1..6, r \in RangeSet, v \in 0..MaxOrd :
          ranges = [i \in 1..6 |-> IF i = w THEN r ELSE <<v, v>>]
    /\ TotalCombinations(ranges) <= MaxCombos
    /\ spc = "loop"
    /\ tried = <<>>
    /\ results = <<>>
    /\ results_df = <<>>
    /\ report = NoReport
    /\ csv = NoCsv
    /\ RunIdle
    /\ EvalIdle
    /\ AggIdle
    /\ DiffIdle

NextSearch ==
    \/ \E out \in FitOutcomes : Fit(out)
    \/ SearchReturn
    \/ MainFinish

SpecSearch == InitSearch /\ [][NextSearch]_vars

(***************************************************************************)
(* Model store: properties                                                 *)
(***************************************************************************)

\* C1: from an empty store, after any sequence of save, load and info calls
\* (failed saves included) the metadata file never exists without the model
\* artifact existing too.
MetadataImpliesArtifact == metadata.exists => artifact.exists

\* C1 witness: a save call has failed part-way and a metadata file is on disk.
FailedSaveWithMetadataOnDisk ==
    ret.op = "save" /\ ~ret.ok /\ metadata.exists

\* C2: after every save call that reports success the metadata on disk was
\* written by that call (its saved_at timestamp) and describes the artifact
\* now on disk, whatever metadata argument was passed.
SuccessfulSaveWroteItsMetadata ==
    (ret.op = "save" /\ ret.ok) =>
        /\ artifact.exists /\ artifact.complete /\ artifact.by = ret.call
        /\ metadata.exists /\ metadata.complete
        /\ metadata.saved_at = ret.call
        /\ metadata.describes = artifact.model

\* C3: load on a store without artifact raises FileNotFoundError, returns no
\* model and leaves both files as they were, for both values of the flag.
LoadOfAbsentArtifactRaises ==
    [][(ret'.op = "load" /\ ~artifact.exists) =>
          /\ ret'.status = "FileNotFoundError"
          /\ ret'.model = 0
          /\ artifact' = artifact
          /\ metadata' = metadata]_vars

\* C3 witness: load was called with metadata check on a store that holds a
\* sidecar and no artifact, and raised.
LoadRaisedWithSidecarOnly ==
    /\ ret.op = "load" /\ ret.check /\ ret.status = "FileNotFoundError"
    /\ ~artifact.exists /\ metadata.exists

\* C4: whenever the artifact is present and readable, load with metadata
\* validation returns that model, whatever state the sidecar is in.
LoadNeverRefusesOnMetadata ==
    (ret.op = "load" /\ ret.check /\ artifact.exists /\ artifact.complete) =>
        (ret.status = "ok" /\ ret.model = artifact.model)

\* C5: info never fails: it returns the existence flags of the two files as
\* they are, and no metadata entry when there is no artifact.
InfoNeverFails ==
    ret.op = "info" =>
        /\ ret.status = "ok"
        /\ ret.info.model_exists = artifact.exists
        /\ ret.info.metadata_exists = metadata.exists
        /\ (~artifact.exists => ~ret.info.has_metadata)

BothSavesCompleted ==
    \A p \in Procs : pc[p] = "done" /\ sret[p] = "True" /\ args[p] = "full"

\* C6 as stated: when two concurrent saves both complete, artifact and
\* metadata are those of one and the same call.
ConcurrentSavesLeaveMatchedPair ==
    BothSavesCompleted =>
        /\ artifact.complete /\ metadata.complete
        /\ artifact.by = metadata.by

\* C6 amended: each file is left as its own last writer wrote it (when the
\* two writes to it did not overlap); the two files may be of different calls.
EachFileIsOfItsLastWriter ==
    (BothSavesCompleted /\ clash = {}) =>
        /\ artifact = [exists |-> TRUE, complete |-> TRUE,
                       model |-> lastDump, by |-> lastDump]
        /\ metadata = [exists |-> TRUE, complete |-> TRUE,
                       describes |-> lastMeta, saved_at |-> stamp[lastMeta],
                       by |-> lastMeta]

\* C6 witness: both calls completed, no write overlapped, and the artifact is
\* of one call while the metadata is of the other.
MixedPairAfterConcurrentSaves ==
    /\ BothSavesCompleted /\ clash = {}
    /\ lastDump # lastMeta
    /\ artifact.by # metadata.by

(***************************************************************************)
(* Order search: properties                                                *)
(***************************************************************************)
Returned == spc \in {"returned", "done"}

\* The Cartesian product of six inclusive ranges, as a set.
Orders(rs) ==
    {<<p, d, q, P, D, Q>> :
        p \in rs[1][1]..rs[1][2], d \in rs[2][1]..rs[2][2],
        q \in rs[3][1]..rs[3][2], P \in rs[4][1]..rs[4][2],
        D \in rs[5][1]..rs[5][2], Q \in rs[6][1]..rs[6][2]}

CartesianSize == Cardinality(Orders(ranges))

\* C7: the result of the order search is ordered by AIC ascending (so its
\* first entry has the minimum AIC) and has at most as many entries as the
\* Cartesian product of the ranges.
ResultSortedByAICAndBounded ==
    Returned =>
        /\ \A i \in 1..(Len(results_df) - 1) :
              results_df[i].AIC <= results_df[i + 1].AIC
        /\ \A i \in 1..Len(results_df) : results_df[1].AIC <= results_df[i].AIC
        /\ Len(results_df) <= CartesianSize

\* C7 witness: a returned ranking of two entries with different AIC, the
\* larger of which was fitted first.
RankingReorderedFits ==
    /\ Returned /\ Len(results_df) = 2
    /\ results[1].AIC > results[2].AIC

LexLess(a, b) ==
    \E i \in 1..6 : a[i] < b[i] /\ \A j \in 1..(i - 1) : a[j] = b[j]

\* C8: entries of equal AIC are ordered by BIC ascending, and entries of
\* equal AIC and BIC by the lexicographic order of (p,d,q,P,D,Q).
TiesBrokenByBICThenOrder ==
    Returned =>
        \A i, j \in 1..Len(results_df) :
            (i < j /\ results_df[i].AIC = results_df[j].AIC) =>
                \/ results_df[i].BIC < results_df[j].BIC
                \/ /\ results_df[i].BIC = results_df[j].BIC
                   /\ LexLess(results_df[i].order, results_df[j].order)

TimesTried(o) == Cardinality({i \in 1..Len(tried) : tried[i].order = o})

LoopOver == spc # "loop" \/ Len(tried) = TotalCombinations(ranges)

\* C9: every combination of the Cartesian product is attempted exactly once,
\* whatever fits failed before it; the results hold exactly one entry (with
\* the AIC and BIC of the fit) for each combination whose fit succeeded and
\* none for a combination whose fit raised.
EveryCombinationTriedOnceAndKeptIffFitted ==
    /\ \A o \in Orders(ranges) : TimesTried(o) <= 1
    /\ \A i \in 1..Len(tried) : tried[i].order \in Orders(ranges)
    /\ LoopOver => \A o \in Orders(ranges) : TimesTried(o) = 1
    /\ \A i \in 1..Len(tried) :
          LET kept == {j \in 1..Len(results) : results[j].order = tried[i].order}
          IN  IF tried[i].raised THEN kept = {}
              ELSE /\ Cardinality(kept) = 1
                   /\ \A j \in kept : /\ results[j].AIC = tried[i].AIC
                                      /\ results[j].BIC = tried[i].BIC
    /\ \A j \in 1..Len(results) :
          \E i \in 1..Len(tried) : tried[i].order = results[j].order
    /\ Returned =>
          /\ Len(results_df) = Len(results)
          /\ \A j \in 1..Len(results) :
                Cardinality({i \in 1..Len(results_df) : results_df[i] = results[j]}) = 1

\* C9 witness: the first fit raised, the second succeeded, and the search
\* returned the one entry.
SearchWentOnAfterFailedFit ==
    /\ Returned /\ Len(tried) = 2
    /\ tried[1].raised /\ ~tried[2].raised
    /\ Len(results_df) = 1

CurrentTried == {i \in 1..Len(tried) : tried[i].order = SARIMA_ORDER}

\* C10: when the current (baseline) order is in the ranking, the reported
\* rank is its 1-based position and the reported gap is its AIC minus the AIC
\* of the first entry, never negative; when its fit failed, no rank or gap is
\* reported and the results are still returned and written out.
BaselineRankAndGapReported ==
    (spc \in {"done", "failed"}) =>
        /\ \A i \in 1..Len(results_df) :
              results_df[i].order = SARIMA_ORDER =>
                  /\ report.shown
                  /\ report.rank = i
                  /\ report.improvement = results_df[i].AIC - results_df[1].AIC
                  /\ report.improvement >= 0
        /\ (\E i \in CurrentTried : tried[i].raised) =>
              /\ ~report.shown
              /\ csv.written
              /\ csv.rows = results_df

(***************************************************************************)
(* SpecRun: the training run (train_sarima.py main) and the forecast run   *)
(* (forecast.py main) over the model store, while the cleaned sales file   *)
(* changes between runs.  The monthly series of a file with records is the *)
(* months 1..sales; a fitted model is named by the last month of the       *)
(* series it was fitted on, which is the month its forecasts start after.  *)
(***************************************************************************)
MinTrainLen == 24        \* if len(monthly_sales) < 24
FORECAST_HORIZON == 12
Slack == 1               \* series lengths tried around MinTrainLen

SeriesLens == {0} \cup ((MinTrainLen - Slack)..(MinTrainLen + Slack))

\* read_csv and resample("M") on the cleaned file.  On a file with records
\* they give the monthly series.  On a file with a header and no record the
\* outcome depends on the pandas build: the index column is not parsed to
\* dates and resample raises, or an empty series comes back.
LoadOutcomes == {"series", "raises"}
PossibleLoad(n, lo) == lo = "raises" => n = 0

\* What the estimation engine can do with a fit request.
EngineOutcomes == {"ok", "raised"}

\* train_sarima.load_monthly_sales: both errors end in sys.exit(1).
TrainLoad(n, lo) ==
    IF lo = "raises" THEN "Exception"
    ELSE IF n < MinTrainLen THEN "ValueError"
    ELSE "ok"

\* forecast.load_monthly_sales: no check on the length of the series.
ForecastLoad(n, lo) == IF lo = "raises" THEN "Exception" ELSE "ok"

\* A training main() that goes on to save_model whatever train_sarima did.
TrainSavesRegardless(n, lo, fo) == TrainLoad(n, lo) = "ok"

\* main() reaches save_model: train_sarima re-raises a failed fit, and
\* main's except ends the run.
TrainSaves(n, lo, fo) == TrainLoad(n, lo) = "ok" /\ fo = "ok"

\* train_sarima.py main()
TrainMain(lo, fo, so) ==
    /\ PossibleLoad(sales, lo)
    /\ IF TrainSaves(sales, lo, fo)
       THEN /\ clock < MaxCalls
            /\ clock' = clock + 1
            /\ artifact' = SaveArtifact(artifact, sales, clock', so)
            /\ metadata' = SaveMetadata(metadata, sales, clock', "full", so)
       ELSE UNCHANGED <<artifact, metadata, clock>>
    /\ run' = [NoRun EXCEPT
                 !.prog = "train",
                 !.data = TrainLoad(sales, lo),
                 !.fit = IF TrainLoad(sales, lo) = "ok" THEN fo ELSE "none",
                 !.fit_len = IF TrainLoad(sales, lo) = "ok" THEN sales ELSE 0,
                 !.save = IF ~TrainSaves(sales, lo, fo) THEN "none"
                          ELSE IF SaveReturn(so) THEN "True" ELSE "False",
                 !.exit = IF TrainSaves(sales, lo, fo) THEN 0 ELSE 1,
                 !.before = <<artifact, metadata>>]
    /\ UNCHANGED <<ret, sales, forecast_csv>>
    /\ UNCHANGED <<concVars, searchVars, evalVars, aggVars, diffVars>>

\* A forecast main() that fits a model without looking at the store.
ForecastModelAlwaysFits(lo, fo) ==
    IF ForecastLoad(sales, lo) # "ok"
    THEN [info |-> "none", load |-> "none", data |-> ForecastLoad(sales, lo),
          fit |-> "none", fit_len |-> 0, from |-> "none", end |-> 0]
    ELSE [info |-> "none", load |-> "none", data |-> "ok",
          fit |-> fo, fit_len |-> sales,
          from |-> IF fo = "ok" THEN "fallback" ELSE "none",
          end |-> IF fo = "ok" THEN sales ELSE 0]

\* forecast.py main(), up to the model it forecasts with: get_model_info,
\* then load_model(check_metadata=True) if the artifact file exists, else
\* load_monthly_sales and train_model.  `end' is the last month of the
\* series the model is bound to.
ForecastModel(lo, fo) ==
    IF InfoOutcome # "ok"
    THEN [info |-> InfoOutcome, load |-> "none", data |-> "none",
          fit |-> "none", fit_len |-> 0, from |-> "none", end |-> 0]
    ELSE IF artifact.exists
    THEN [info |-> "ok", load |-> LoadOutcome(TRUE), data |-> "none",
          fit |-> "none", fit_len |-> 0,
          from |-> IF LoadOutcome(TRUE) = "ok" THEN "store" ELSE "none",
          end |-> IF LoadOutcome(TRUE) = "ok" THEN artifact.model ELSE 0]
    ELSE IF ForecastLoad(sales, lo) # "ok"
    THEN [info |-> "ok", load |-> "none", data |-> ForecastLoad(sales, lo),
          fit |-> "none", fit_len |-> 0, from |-> "none", end |-> 0]
    ELSE [info |-> "ok", load |-> "none", data |-> "ok",
          fit |-> fo, fit_len |-> sales,
          from |-> IF fo = "ok" THEN "fallback" ELSE "none",
          end |-> IF fo = "ok" THEN sales ELSE 0]

\* forecast_next(model): model.get_forecast(steps=FORECAST_HORIZON), the
\* months that follow the series the model is bound to.
forecast_next(end, steps) == [i \in 1..steps |-> end + i]

\* plot_forecast: plt.axvline(x=sales.index[-1]) on the series just loaded.
PlotForecast(n) == IF n = 0 THEN "IndexError" ELSE "ok"

\* forecast.py main()
ForecastMain(lo, fo) ==
    LET m == ForecastModel(lo, fo)
        data == IF m.from = "none" THEN m.data ELSE ForecastLoad(sales, lo)
        forecast == m.from # "none" /\ data = "ok"
        plot == IF forecast THEN PlotForecast(sales) ELSE "none"
        index == IF forecast THEN forecast_next(m.end, FORECAST_HORIZON)
                 ELSE <<>>
    IN  /\ PossibleLoad(sales, lo)
        /\ run' = [NoRun EXCEPT
                     !.prog = "forecast", !.info = m.info, !.load = m.load,
                     !.data = data, !.fit = m.fit, !.fit_len = m.fit_len,
                     !.from = m.from, !.model_end = m.end, !.index = index,
                     !.against = IF forecast THEN sales ELSE 0,
                     !.plot = plot,
                     !.exit = IF plot = "ok" THEN 0 ELSE 1,
                     !.before = <<artifact, metadata>>]
        /\ forecast_csv' = IF plot = "ok"
                           THEN [written |-> TRUE, index |-> index]
                           ELSE forecast_csv
        /\ UNCHANGED <<storeVars, sales>>
        /\ UNCHANGED <<concVars, searchVars, evalVars, aggVars, diffVars>>

\* The cleaning step rewrites the cleaned sales file between two runs.
DataChange(n) ==
    /\ n # sales
    /\ sales' = n
    /\ UNCHANGED <<storeVars, run, forecast_csv>>
    /\ UNCHANGED <<concVars, searchVars, evalVars, aggVars, diffVars>>

InitRun ==
    /\ StoreEmpty
    /\ ConcIdle
    /\ SearchIdle
    /\ EvalIdle
    /\ AggIdle
    /\ DiffIdle
    /\ sales \in SeriesLens
    /\ run = NoRun
    /\ forecast_csv = NoForecastCsv

NextRun ==
    \/ \E lo \in LoadOutcomes, fo \in EngineOutcomes, so \in SaveOutcomes :
          TrainMain(lo, fo, so)
    \/ \E lo \in LoadOutcomes, fo \in EngineOutcomes : ForecastMain(lo, fo)
    \/ \E n \in SeriesLens : DataChange(n)

SpecRun == InitRun /\ [][NextRun]_vars

\* C11: no fit is started on a series of fewer than MinTrainLen (24)
\* observations, in the training run and in the fallback training of the
\* forecast run alike.
EveryFitHasMinTrainLen ==
    run.fit # "none" => run.fit_len >= MinTrainLen

\* C12: when the engine fails to fit in a training run, the run ends in
\* failure without calling save_model, and artifact and metadata are what
\* they were before the run.
FailedFitEndsRunAndLeavesStore ==
    (run.prog = "train" /\ run.fit = "raised") =>
        /\ run.exit # 0
        /\ run.save = "none"
        /\ artifact = run.before[1]
        /\ metadata = run.before[2]

\* C12 witness: a training run whose fit raised, over a store that already
\* held the artifact and metadata of an earlier run.
FitRaisedOverStoredModel ==
    /\ run.prog = "train" /\ run.fit = "raised"
    /\ artifact.exists /\ metadata.exists

(***************************************************************************)
(* SpecEval: the evaluation script (model_evaluation.py), statement by     *)
(* statement, on a monthly series of whole-number sales.  The holdout size *)
(* is a configuration value (config.TEST_SIZE, 12 as shipped); it is drawn *)
(* here from 0 up to one more than the longest series.                     *)
(***************************************************************************)
MaxLen == 3      \* months in the evaluated series: 0..MaxLen
MaxVal == 1      \* monthly sales are in -MaxVal..MaxVal, predictions in 0..MaxVal

Abs(x) == IF x < 0 THEN 0 - x ELSE x

\* Python's s[:-h]: -0 is 0, so s[:-0] is s[:0], the empty series; a stop
\* before the first element is clipped to it.
TrainPart(s, h) ==
    IF h = 0 \/ h >= Len(s) THEN <<>> ELSE SubSeq(s, 1, Len(s) - h)

\* Python's s[-h:]: s[-0:] is s[0:], the whole series; a start before the
\* first element is clipped to it.
TestPart(s, h) ==
    IF h = 0 \/ h >= Len(s) THEN s ELSE SubSeq(s, Len(s) - h + 1, Len(s))

\* train = monthly_sales[:-TEST_SIZE]; test = monthly_sales[-TEST_SIZE:]
EvalSplit ==
    /\ epc = "split"
    /\ train' = TrainPart(monthly_sales, test_size)
    /\ test' = TestPart(monthly_sales, test_size)
    /\ epc' = "fit"
    /\ UNCHANGED <<monthly_sales, test_size, fitted, predictions, metrics>>
    /\ UNCHANGED <<storeVars, concVars, searchVars, runVars, aggVars, diffVars>>

\* model = SARIMAX(train, ...); results = model.fit(disp=False).  No
\* statement looks at the length of train first; an engine error is not
\* caught and ends the script.
EvalFit(fo) ==
    /\ epc = "fit"
    /\ fitted' = [called |-> TRUE, on |-> Len(train), outcome |-> fo]
    /\ epc' = IF fo = "ok" THEN "predict" ELSE "failed"
    /\ UNCHANGED <<monthly_sales, test_size, train, test, predictions, metrics>>
    /\ UNCHANGED <<storeVars, concVars, searchVars, runVars, aggVars, diffVars>>

\* predictions = results.predict(start=test.index[0], end=test.index[-1]):
\* one value per test month; test.index[0] raises on an empty test part.
EvalPredict(p) ==
    /\ epc = "predict"
    /\ IF test = <<>>
       THEN epc' = "failed" /\ UNCHANGED predictions
       ELSE /\ Len(p) = Len(test)
            /\ predictions' = p
            /\ epc' = "metrics"
    /\ UNCHANGED <<monthly_sales, test_size, train, test, fitted, metrics>>
    /\ UNCHANGED <<storeVars, concVars, searchVars, runVars, aggVars, diffVars>>

\* Sums over the test months of |actual - predicted|, of its square, and of
\* |actual - predicted| / |actual| as the fraction <<numerator, denominator>>.
RECURSIVE AbsErrorSum(_, _, _)
AbsErrorSum(a, p, k) ==
    IF k = 0 THEN 0 ELSE AbsErrorSum(a, p, k - 1) + Abs(a[k] - p[k])

RECURSIVE SqErrorSum(_, _, _)
SqErrorSum(a, p, k) ==
    IF k = 0 THEN 0
    ELSE SqErrorSum(a, p, k - 1) + (a[k] - p[k]) * (a[k] - p[k])

RECURSIVE RatioSum(_, _, _)
RatioSum(a, p, k) ==
    IF k = 0 THEN <<0, 1>>
    ELSE LET r == RatioSum(a, p, k - 1)
         IN  <<r[1] * Abs(a[k]) + Abs(a[k] - p[k]) * r[2], r[2] * Abs(a[k])>>

\* np.mean(np.abs((test - predictions) / test)) * 100 in floating point: a
\* zero actual gives 0/0 = nan when the prediction is zero too and
\* x/0 = inf otherwise, without raising; the mean of terms with a nan is
\* nan, of terms with an inf and no nan is inf.
MapeKind(a, p) ==
    IF \E i \in 1..Len(a) : a[i] = 0 /\ p[i] = 0 THEN "nan"
    ELSE IF \E i \in 1..Len(a) : a[i] = 0 THEN "inf"
    ELSE "finite"

\* mae, rmse, mape of lines 64-66 in exact arithmetic: MAE is abs_sum / n,
\* RMSE the square root of sq_sum / n, and a finite MAPE is
\* 100 * mape_num / (mape_den * n).
Metrics(a, p) ==
    [produced |-> TRUE, plotted |-> FALSE, n |-> Len(a),
     abs_sum |-> AbsErrorSum(a, p, Len(a)),
     sq_sum |-> SqErrorSum(a, p, Len(a)),
     mape |-> MapeKind(a, p),
     mape_num |-> IF MapeKind(a, p) = "finite"
                  THEN 100 * RatioSum(a, p, Len(a))[1] ELSE 0,
     mape_den |-> IF MapeKind(a, p) = "finite"
                  THEN RatioSum(a, p, Len(a))[2] ELSE 1]

\* mae = ...; rmse = ...; mape = ...; the three are printed.
EvalMetrics ==
    /\ epc = "metrics"
    /\ metrics' = Metrics(test, predictions)
    /\ epc' = "plot"
    /\ UNCHANGED <<monthly_sales, test_size, train, test, fitted, predictions>>
    /\ UNCHANGED <<storeVars, concVars, searchVars, runVars, aggVars, diffVars>>

\* plot_model_evaluation(train, test, predictions, metrics): the metrics are
\* formatted into the figure, then plt.axvline(x=train.index[-1]) raises on
\* an empty train part.
EvalPlot ==
    /\ epc = "plot"
    /\ metrics' = [metrics EXCEPT !.plotted = TRUE]
    /\ epc' = IF train = <<>> THEN "failed" ELSE "done"
    /\ UNCHANGED <<monthly_sales, test_size, train, test, fitted, predictions>>
    /\ UNCHANGED <<storeVars, concVars, searchVars, runVars, aggVars, diffVars>>

Values == (0 - MaxVal)..MaxVal
SeriesUpTo(n, V) == UNION {[1..k -> V] : k \in 0..n}

InitEval ==
    /\ StoreEmpty
    /\ ConcIdle
    /\ SearchIdle
    /\ RunIdle
    /\ AggIdle
    /\ DiffIdle
    /\ monthly_sales \in SeriesUpTo(MaxLen, Values)
    /\ test_size \in 0..(MaxLen + 1)
    /\ epc = "split"
    /\ train = <<>>
    /\ test = <<>>
    /\ fitted = [called |-> FALSE, on |-> 0, outcome |-> "none"]
    /\ predictions = <<>>
    /\ metrics = NoMetrics

NextEval ==
    \/ EvalSplit
    \/ \E fo \in EngineOutcomes : EvalFit(fo)
    \/ \E p \in SeriesUpTo(MaxLen, 0..MaxVal) : EvalPredict(p)
    \/ EvalMetrics
    \/ EvalPlot

SpecEval == InitEval /\ [][NextEval]_vars

\* C13: after the split, train followed by test is the whole series and the
\* test part has exactly TEST_SIZE periods, for every series and every size
\* from 0 to the length of the series (no split of a shorter series has a
\* test part of TEST_SIZE periods).
SplitGivesHoldoutOfRequestedSize ==
    (epc \notin {"idle", "split"} /\ test_size <= Len(monthly_sales)) =>
        /\ train \o test = monthly_sales
        /\ Len(test) = test_size
        /\ Len(train) = Len(monthly_sales) - Len(test)

\* C14: when the train part is empty the script fails before the engine is
\* asked to fit and before metrics are produced.
EmptyTrainFailsBeforeFit ==
    (epc \notin {"idle", "split"} /\ train = <<>>) =>
        /\ ~fitted.called
        /\ ~metrics.produced

\* C15: no MAPE value is produced, printed or handed to the plot when a test
\* actual is zero (looked at after a fit on a non-empty train part).
ZeroActualGivesNoMape ==
    (metrics.produced /\ fitted.on > 0) =>
        \A i \in 1..Len(test) : test[i] # 0

\* C16: whenever metrics are produced for a non-empty test part, MAE, RMSE
\* and MAPE are >= 0 and RMSE >= MAE (n * sq_sum >= abs_sum^2, the two
\* sides of RMSE >= MAE squared and multiplied by n^2), negative actuals
\* included.  A nan is >= nothing; looked at after a fit on a non-empty
\* train part.
MetricsNonNegativeAndRmseAtLeastMae ==
    (metrics.produced /\ metrics.n > 0 /\ fitted.on > 0) =>
        /\ metrics.abs_sum >= 0
        /\ metrics.sq_sum >= 0
        /\ metrics.mape # "nan"
        /\ metrics.mape_num >= 0 /\ metrics.mape_den > 0
        /\ metrics.n * metrics.sq_sum >= metrics.abs_sum * metrics.abs_sum

\* C17: a forecast run that reports a forecast yields FORECAST_HORIZON (12)
\* entries for consecutive months, the first being the month after the last
\* month of the sales series it is plotted with, whether the model was
\* fitted by the run or loaded from the store.
ForecastFollowsReportedSeries ==
    (run.prog = "forecast" /\ run.exit = 0) =>
        /\ Len(run.index) = FORECAST_HORIZON
        /\ \A i \in 1..Len(run.index) : run.index[i] = run.against + i
        /\ forecast_csv.written

\* C18: no forecast run ends in success with a model loaded from the store
\* that is stale, that is, bound to a series ending in another month than
\* the metadata on disk says or than the series the run loaded.
StaleModelGivesNoForecast ==
    (run.prog = "forecast" /\ run.from = "store" /\ run.exit = 0) =>
        /\ run.model_end = run.against
        /\ (run.before[2].exists /\ run.before[2].complete) =>
               run.before[2].describes = run.model_end

(***************************************************************************)
(* SpecAgg: load_monthly_sales, the aggregation to a monthly series that   *)
(* every component carries its own copy of.  A record of the cleaned file  *)
(* is <<month of its order date, sales amount>>; entry i of the monthly    *)
(* series is for month first + i - 1.                                      *)
(***************************************************************************)
MaxRecs == 3     \* records in the cleaned file: 0..MaxRecs
MaxMonth == 3    \* order dates fall in the months 1..MaxMonth
MaxSale == 2     \* sales amounts: 1..MaxSale

Components == {"train_sarima", "forecast", "model_evaluation",
               "stationarity_check", "differencing", "hyperparameter_tuning"}

MonthsOf(recs) == {recs[i][1] : i \in 1..Len(recs)}

Max(S) == CHOOSE x \in S : \A y \in S : x >= y

\* The sum of the sales of the first k records that fall in month m.
RECURSIVE MonthSum(_, _, _)
MonthSum(recs, m, k) ==
    IF k = 0 THEN 0
    ELSE MonthSum(recs, m, k - 1) + (IF recs[k][1] = m THEN recs[k][2] ELSE 0)

\* df.set_index("order_date").resample("M")["sales"].sum() on a file with
\* records: one bin for every calendar month from the first to the last
\* order date, and the sum of an empty bin is 0.
Resample(recs) ==
    [i \in 1..(Max(MonthsOf(recs)) - Min(MonthsOf(recs)) + 1) |->
        MonthSum(recs, Min(MonthsOf(recs)) + i - 1, Len(recs))]

\* How the load_monthly_sales of a component ends on a series of n months:
\* train_sarima checks the length, forecast only catches what pandas raises,
\* the others have neither check nor handler.
LoadStatus(comp, n, lo) ==
    CASE comp = "train_sarima" -> TrainLoad(n, lo)
      [] comp = "forecast" -> ForecastLoad(n, lo)
      [] OTHER -> IF lo = "raises" THEN "Exception" ELSE "ok"

\* load_monthly_sales() of one component
LoadMonthlySales(comp, lo) ==
    LET series == IF cleaned = <<>> THEN <<>> ELSE Resample(cleaned)
        status == LoadStatus(comp, Len(series), lo)
    IN  /\ PossibleLoad(Len(cleaned), lo)
        /\ loaded' = [by |-> comp, status |-> status,
                      series |-> IF status = "ok" THEN series ELSE <<>>,
                      first |-> IF status = "ok" /\ series # <<>>
                                THEN Min(MonthsOf(cleaned)) ELSE 0]
        /\ UNCHANGED cleaned
        /\ UNCHANGED <<storeVars, concVars, searchVars, runVars, evalVars,
                     diffVars>>

InitAgg ==
    /\ StoreEmpty
    /\ ConcIdle
    /\ SearchIdle
    /\ RunIdle
    /\ EvalIdle
    /\ DiffIdle
    /\ cleaned \in SeriesUpTo(MaxRecs, (1..MaxMonth) \X (1..MaxSale))
    /\ loaded = NoLoaded

NextAgg ==
    \E comp \in Components, lo \in LoadOutcomes : LoadMonthlySales(comp, lo)

SpecAgg == InitAgg /\ [][NextAgg]_vars

\* C19: the monthly series has an entry only for a calendar month that holds
\* at least one record: a month without record between the first and the
\* last is not in the series.
SeriesHoldsOnlyMonthsWithRecords ==
    loaded.status = "ok" =>
        \A i \in 1..Len(loaded.series) :
            (loaded.first + i - 1) \in MonthsOf(cleaned)

Diff(s) ==
    [t \in 1..Len(s) |->
        IF t = 1 THEN [t |-> t, na |-> TRUE, val |-> 0]
        ELSE [t |-> t, na |-> FALSE, val |-> s[t] - s[t - 1]]]

\* A dropna that leaves the series as it is.
DropNaNothing(d) == d

\* .dropna(): a new series without the NaN entries.
DropNa(d) == SelectSeq(d, LAMBDA e : ~e.na)

\* difference_series(series): return series.diff().dropna()
difference_series(s) == DropNa(Diff(s))

\* diff_sales = difference_series(sales)
DiffDifference ==
    /\ dpc = "difference"
    /\ diff_sales' = difference_series(dsales)
    /\ dpc' = "adf_before"
    /\ UNCHANGED <<dsales, adf>>
    /\ UNCHANGED <<storeVars, concVars, searchVars, runVars, evalVars,
                   aggVars>>

\* adf_test(sales, "Before Differencing"): adfuller is the engine's; an
\* error it raises is not caught and ends the script.
AdfBefore(out) ==
    /\ dpc = "adf_before"
    /\ adf' = Append(adf, [on |-> "sales", nobs |-> Len(dsales),
                           outcome |-> out])
    /\ dpc' = IF out = "ok" THEN "adf_after" ELSE "failed"
    /\ UNCHANGED <<dsales, diff_sales>>
    /\ UNCHANGED <<storeVars, concVars, searchVars, runVars, evalVars,
                   aggVars>>

\* adf_test(diff_sales, "After Differencing")
AdfAfter(out) ==
    /\ dpc = "adf_after"
    /\ adf' = Append(adf, [on |-> "diff_sales", nobs |-> Len(diff_sales),
                           outcome |-> out])
    /\ dpc' = IF out = "ok" THEN "done" ELSE "failed"
    /\ UNCHANGED <<dsales, diff_sales>>
    /\ UNCHANGED <<storeVars, concVars, searchVars, runVars, evalVars,
                   aggVars>>

\* sales = load_monthly_sales(): a series of sums, none of them missing.
InitDiff ==
    /\ StoreEmpty
    /\ ConcIdle
    /\ SearchIdle
    /\ RunIdle
    /\ EvalIdle
    /\ AggIdle
    /\ dsales \in SeriesUpTo(MaxLen, Values)
    /\ diff_sales = <<>>
    /\ dpc = "difference"
    /\ adf = <<>>

NextDiff ==
    \/ DiffDifference
    \/ \E out \in EngineOutcomes : AdfBefore(out)
    \/ \E out \in EngineOutcomes : AdfAfter(out)

SpecDiff == InitDiff /\ [][NextDiff]_vars

\* C21: for a series of n >= 1 months the differenced series has n - 1
\* entries, entry t being series[t+1] - series[t] (positions from 1) under
\* the label of month t+1, none of them the missing marker; and no step of
\* the script changes the series that was differenced.
DifferenceIsSuccessiveDifferences ==
    /\ []((dpc \notin {"idle", "difference"} /\ Len(dsales) >= 1) =>
            /\ Len(diff_sales) = Len(dsales) - 1
            /\ \A t \in 1..Len(diff_sales) :
                  /\ ~diff_sales[t].na
                  /\ diff_sales[t].t = t + 1
                  /\ diff_sales[t].val = dsales[t + 1] - dsales[t])
    /\ [][dsales' = dsales]_vars

\* C21 witness: a series that falls and then rises has been differenced, and
\* both unit-root tests have run.
DifferencedFallThenRise ==
    /\ dpc = "done"
    /\ Len(diff_sales) >= 2
    /\ diff_sales[1].val < 0
    /\ diff_sales[2].val > 0

\* C22: a training or forecast run in which a step failed (loading the data,
\* consulting or loading the stored model, fitting, plotting, or saving the
\* trained model) ends with a non-zero exit status.
FailedStepGivesNonZeroExit ==
    (\/ run.data \notin {"none", "ok"}
     \/ run.info \notin {"none", "ok"}
     \/ run.load \notin {"none", "ok"}
     \/ run.fit = "raised"
     \/ run.plot \notin {"none", "ok"}
     \/ run.save = "False") => run.exit # 0

\* C23: a grid_search_sarima that has tried at least one combination never
\* ends by raising: it returns a ranking, an empty one when no fit succeeded.
SearchNeverRaises == tried # <<>> => spc \notin {"raised", "failed"}

\* C24: a forecast run fits a model only when it found no artifact in the
\* store, and then calls no load; when it found one it fits nothing and any
\* model it forecasts with is the stored one; and artifact and metadata are
\* after the run what they were before it.
ForecastConsultsStoreAndLeavesIt ==
    run.prog = "forecast" =>
        /\ run.fit # "none" =>
              ~run.before[1].exists /\ run.load = "none"
        /\ run.before[1].exists =>
              /\ run.fit = "none"
              /\ run.from \in {"store", "none"}
              /\ run.info = "ok" => run.load # "none"
        /\ run.from = "store" => run.model_end = run.before[1].model
        /\ artifact = run.before[1]
        /\ metadata = run.before[2]

\* C24 witness: a forecast run fitted its own model on an empty store,
\* wrote its forecast, and the store is still empty.
FallbackForecastLeftStoreEmpty ==
    /\ run.prog = "forecast" /\ run.from = "fallback" /\ run.exit = 0
    /\ forecast_csv.written
    /\ ~artifact.exists /\ ~metadata.exists

====
